---- MODULE Spec2Model ----
(***************************************************************************)
(* Model of xaplibrary-sequelizefactory: the configuration model           *)
(* (configuration/model.js) and the Sequelize factory (core/factory.js).   *)
(*                                                                         *)
(* JavaScript values are tagged records [t, n, s, f]:                      *)
(*   t  the runtime type: "null", "bool", "int", "frac", "str", "obj"      *)
(*   n  the numeric payload (a boolean is 0/1, "frac" is n + 1/2)          *)
(*   s  the string payload (for "obj" without members: its identity)       *)
(*   f  the members of an object, a function from keys to values           *)
(* Messages are sequences of text fragments: Util.format(prefix, message)  *)
(* puts the prefix in front of the fragments of the inner message.         *)
(***************************************************************************)
EXTENDS Integers, Sequences, FiniteSets, TLC

VARIABLES
    file,       \* the bundled model.default.json: [status, doc]
    pc,         \* position of the create() call: "idle", "awaiting", "done"
    arg,        \* arguments of the create() call: [cfg, wait]
    modelCfg,   \* create()'s local modelCfg: what ModelConfiguration.From did
    sequelize,  \* the external client: [made, options]
    ctorCalls,  \* number of "new Sequelize(...)" evaluations in this call
    authCalls,  \* number of sequelize.authenticate() invocations in this call
    authResult, \* settlement of the promise authenticate() returned
    outcome,    \* settlement of the promise: [state, error]
    res,        \* last synchronous API call: [op, builder, arg, out]
    reads,      \* ReadDefaultRawConfiguration() calls made by the last call
    second,     \* a create() call started while the first one is suspended
    stepLog     \* the steps the create() call has taken, in order

vars ==
    <<file, pc, arg, modelCfg, sequelize, ctorCalls, authCalls, authResult,
      outcome, res, reads, second, stepLog>>

(***************************************************************************)
(* Bounds.                                                                 *)
(***************************************************************************)
\* Largest number of keys of a raw object handed to a nested builder.
MaxNestedKeys == 2
\* Largest number of keys of a raw object handed to ModelConfiguration.From.
MaxTopKeys == 1

(***************************************************************************)
(* JavaScript values.                                                      *)
(***************************************************************************)
NoMembers == <<>>

JNull == [t |-> "null", n |-> 0, s |-> "", f |-> NoMembers]
JBool(b) == [t |-> "bool", n |-> IF b THEN 1 ELSE 0, s |-> "", f |-> NoMembers]
JInt(i) == [t |-> "int", n |-> i, s |-> "", f |-> NoMembers]
JFrac(i) == [t |-> "frac", n |-> i, s |-> "", f |-> NoMembers]
JStr(str) == [t |-> "str", n |-> 0, s |-> str, f |-> NoMembers]
JObj(members) == [t |-> "obj", n |-> 0, s |-> "", f |-> members]
Opaque(id) == [t |-> "obj", n |-> 0, s |-> id, f |-> NoMembers]
EmptyObject == JObj(NoMembers)

(***************************************************************************)
(* Errors and results of calls that may throw.                             *)
(***************************************************************************)
NoError == [class |-> "", message |-> <<>>, wraps |-> ""]
Err(class, message) == [class |-> class, message |-> message, wraps |-> ""]
Ok(v) == [ok |-> TRUE, v |-> v, err |-> NoError]
Throw(e) == [ok |-> FALSE, v |-> JNull, err |-> e]

\* Util.format("<prefix> (error = \"%s\")", message)
Format(prefix, message) == <<prefix>> \o message

(***************************************************************************)
(* XRTLibTraverse as used by the configuration model. A traverse object    *)
(* is [inner, path, err]; once a step has thrown (err # NoError) the rest  *)
(* of the chain is not executed.                                           *)
(***************************************************************************)
WrapObject(v) == [inner |-> v, path |-> <<>>, err |-> NoError]

\* Variant: the error does not carry the path of the member.
TraverseThrow_NoPath(tr, class, text) ==
    [tr EXCEPT !.err = Err(class, <<text>>)]

TraverseThrow(tr, class, text) ==
    [tr EXCEPT !.err = Err(class, <<text>> \o tr.path)]

\* Variant: null is let through.
notNull_Lenient(tr) == tr

notNull(tr) ==
    IF tr.err # NoError THEN tr
    ELSE IF tr.inner.t = "null"
         THEN TraverseThrow(tr, "TraverseTypeError", "Null value.")
         ELSE tr

\* Type assertions let null pass; notNull() is what rejects null.
AssertType(tr, kind) ==
    IF tr.err # NoError THEN tr
    ELSE IF tr.inner.t = "null" \/ tr.inner.t = kind THEN tr
    ELSE TraverseThrow(tr, "TraverseTypeError", "Invalid type.")

typeOfObject(tr) == AssertType(tr, "obj")
boolean(tr) == AssertType(tr, "bool")
\* Variant: a number with a fractional part passes as an integer.
integer_Lenient(tr) ==
    IF tr.err = NoError /\ tr.inner.t = "frac" THEN tr
    ELSE AssertType(tr, "int")

integer(tr) == AssertType(tr, "int")
string(tr) == AssertType(tr, "str")

sub(tr, name) ==
    IF tr.err # NoError THEN tr
    ELSE IF name \in DOMAIN tr.inner.f
         THEN [inner |-> tr.inner.f[name], path |-> tr.path \o <<name>>,
               err |-> NoError]
         ELSE TraverseThrow([tr EXCEPT !.path = tr.path \o <<name>>],
                            "TraverseKeyNotFoundError", "Key not found.")

\* Variant: the supplied member is ignored.
optionalSub_AlwaysDefault(tr, name, defaultValue) ==
    IF tr.err # NoError THEN tr
    ELSE [inner |-> defaultValue, path |-> tr.path \o <<name>>,
          err |-> NoError]

\* Variant: an absent member reads as null instead of the default.
optionalSub_NoDefault(tr, name, defaultValue) ==
    IF tr.err # NoError THEN tr
    ELSE IF name \in DOMAIN tr.inner.f
         THEN [inner |-> tr.inner.f[name], path |-> tr.path \o <<name>>,
               err |-> NoError]
         ELSE [inner |-> JNull, path |-> tr.path \o <<name>>,
               err |-> NoError]

\* Variant: a member that is null reads as the default, like an absent one.
optionalSub_NullIsAbsent(tr, name, defaultValue) ==
    IF tr.err # NoError THEN tr
    ELSE IF name \in DOMAIN tr.inner.f /\ tr.inner.f[name] # JNull
         THEN [inner |-> tr.inner.f[name], path |-> tr.path \o <<name>>,
               err |-> NoError]
         ELSE [inner |-> defaultValue, path |-> tr.path \o <<name>>,
               err |-> NoError]

optionalSub(tr, name, defaultValue) ==
    IF tr.err # NoError THEN tr
    ELSE IF name \in DOMAIN tr.inner.f
         THEN [inner |-> tr.inner.f[name], path |-> tr.path \o <<name>>,
               err |-> NoError]
         ELSE [inner |-> defaultValue, path |-> tr.path \o <<name>>,
               err |-> NoError]

\* The first step of a try block that threw, in statement order.
RECURSIVE FirstError(_)
FirstError(steps) ==
    IF steps = <<>> THEN NoError
    ELSE IF Head(steps).err # NoError THEN Head(steps).err
    ELSE FirstError(Tail(steps))

(***************************************************************************)
(* The bundled default document (configuration/model.default.json).        *)
(***************************************************************************)
DefaultSync == JObj([force |-> JBool(FALSE), alter |-> JBool(FALSE)])

DefaultPool ==
    JObj([max |-> JInt(5), min |-> JInt(0), idle |-> JInt(10000),
          acquire |-> JInt(60000), evict |-> JInt(1000)])

DefaultTransaction ==
    JObj(("type" :> JStr("DEFERRED")) @@
         ("isolation-level" :> JStr("READ_COMMITTED")))

DefaultRetry == JObj([max |-> JInt(4)])

\* The document; the table of defaults does not give omit-null and
\* operators-aliases, so both are left to the installation.
DefaultDocument(omitNull, operatorsAliases) ==
    JObj(("host" :> JStr("localhost")) @@
         ("port" :> JInt(3306)) @@
         ("username" :> JNull) @@
         ("password" :> JNull) @@
         ("database" :> JNull) @@
         ("dialect" :> JStr("mysql")) @@
         ("protocol" :> JStr("tcp")) @@
         ("sync" :> DefaultSync) @@
         ("logging" :> JBool(FALSE)) @@
         ("omit-null" :> omitNull) @@
         ("pool" :> DefaultPool) @@
         ("transaction" :> DefaultTransaction) @@
         ("retry" :> DefaultRetry) @@
         ("operators-aliases" :> operatorsAliases))

DefaultFiles ==
    { [status |-> "ok", doc |-> DefaultDocument(JBool(b), o)] :
        b \in BOOLEAN, o \in {JNull, Opaque("aliases")} }

\* A document with one member replaced, and with one member removed.
WithMember(doc, key, value) == JObj((key :> value) @@ doc.f)
WithoutMember(doc, key) ==
    JObj([k \in DOMAIN doc.f \ {key} |-> doc.f[k]])

\* Documents of a damaged installation: each is invalid for one component.
BrokenDocuments ==
    { WithMember(DefaultDocument(JBool(FALSE), JNull), "sync",
                 WithMember(DefaultSync, "force", JStr("false"))),
      WithMember(DefaultDocument(JBool(FALSE), JNull), "pool",
                 WithoutMember(DefaultPool, "max")),
      WithMember(DefaultDocument(JBool(FALSE), JNull), "transaction",
                 WithMember(DefaultTransaction, "type", JNull)),
      WithMember(DefaultDocument(JBool(FALSE), JNull), "retry",
                 WithMember(DefaultRetry, "max", JStr("4"))),
      WithMember(DefaultDocument(JBool(FALSE), JNull), "host", JNull) }

\* A file that cannot be read, one that is not JSON, and the damaged
\* documents.
BrokenFiles ==
    { [status |-> "unreadable", doc |-> JNull],
      [status |-> "unparsable", doc |-> JNull] }
    \cup { [status |-> "ok", doc |-> d] : d \in BrokenDocuments }

ReadDefaultRawConfiguration ==
    IF file.status = "unreadable"
    THEN Throw(Err("Error",
             Format("Read model default configuration file error.",
                    <<"ENOENT">>)))
    ELSE IF file.status = "unparsable"
    THEN Throw(Err("Error",
             Format("Invalid default model configuration.",
                    <<"SyntaxError">>)))
    ELSE Ok(file.doc)

(***************************************************************************)
(* Configuration classes: constructors and toObject().                     *)
(***************************************************************************)
ModelPoolConfiguration(max, min, idle, acquire, evict) ==
    [max |-> max, min |-> min, idle |-> idle, acquire |-> acquire,
     evict |-> evict]

\* Variant: max and min change places.
PoolToObject_Swapped(c) ==
    [max |-> c.min, min |-> c.max, idle |-> c.idle, acquire |-> c.acquire,
     evict |-> c.evict]

PoolToObject(c) ==
    [max |-> c.max, min |-> c.min, idle |-> c.idle, acquire |-> c.acquire,
     evict |-> c.evict]

ModelSyncConfiguration(force, alter) == [force |-> force, alter |-> alter]

SyncToObject(c) == [force |-> c.force, alter |-> c.alter]

ModelTransactionConfiguration(type, isolationLevel) ==
    [type |-> type, isolationLevel |-> isolationLevel]

TransactionToObject(c) ==
    [transactionType |-> c.type, isolationLevel |-> c.isolationLevel]

ModelRetryConfiguration(max) == [max |-> max]

RetryToObject(c) == [max |-> c.max]

\* Variant: two positional arguments change places.
ModelConfiguration_Swapped(host, port, username, password, database, dialect, protocol, syncCfg, logging, omitNull, poolCfg, transactionCfg, retryCfg, operatorsAliases) ==
    [host |-> host, port |-> port, username |-> username,
     password |-> password, database |-> database, dialect |-> protocol,
     protocol |-> dialect, syncCfg |-> syncCfg, logging |-> logging,
     omitNull |-> omitNull, poolCfg |-> poolCfg,
     transactionCfg |-> transactionCfg, retryCfg |-> retryCfg,
     operatorsAliases |-> operatorsAliases]

ModelConfiguration(host, port, username, password, database, dialect, protocol, syncCfg, logging, omitNull, poolCfg, transactionCfg, retryCfg, operatorsAliases) ==
    [host |-> host, port |-> port, username |-> username,
     password |-> password, database |-> database, dialect |-> dialect,
     protocol |-> protocol, syncCfg |-> syncCfg, logging |-> logging,
     omitNull |-> omitNull, poolCfg |-> poolCfg,
     transactionCfg |-> transactionCfg, retryCfg |-> retryCfg,
     operatorsAliases |-> operatorsAliases]

\* Variant: the transaction group is serialized under the wrong keys.
ToObject_Crossed(c) ==
    [host |-> c.host,
     port |-> c.port,
     username |-> c.username,
     password |-> c.password,
     database |-> c.database,
     dialect |-> c.dialect,
     protocol |-> c.protocol,
     sync |-> SyncToObject(c.syncCfg),
     logging |-> c.logging,
     omitNull |-> c.omitNull,
     pool |-> PoolToObject(c.poolCfg),
     transactionType |-> c.transactionCfg.isolationLevel,
     isolationLevel |-> c.transactionCfg.type,
     retry |-> RetryToObject(c.retryCfg),
     operatorsAliases |-> c.operatorsAliases]

ToObject(c) ==
    [host |-> c.host,
     port |-> c.port,
     username |-> c.username,
     password |-> c.password,
     database |-> c.database,
     dialect |-> c.dialect,
     protocol |-> c.protocol,
     sync |-> SyncToObject(c.syncCfg),
     logging |-> c.logging,
     omitNull |-> c.omitNull,
     pool |-> PoolToObject(c.poolCfg),
     transactionType |-> c.transactionCfg.type,
     isolationLevel |-> c.transactionCfg.isolationLevel,
     retry |-> RetryToObject(c.retryCfg),
     operatorsAliases |-> c.operatorsAliases]

(***************************************************************************)
(* Nested builders. Every builder is written as a chain of operators, one  *)
(* per stage of the function: the value a stage computes once is handed to *)
(* the next stage as an argument.                                          *)
(***************************************************************************)
ConfigurationError(message) == Err("ModelConfigurationError", message)

\* catch (error) { throw new ModelConfigurationError(Util.format(...)) }
Catch(prefix, error, value) ==
    IF error # NoError
    THEN Throw(ConfigurationError(Format(prefix, error.message)))
    ELSE Ok(value)

\* The end of the try block of Sync.Default and Sync.From: the catch clause
\* when a statement threw, the constructor call otherwise.
SyncBuild(prefix, root, force, alter) ==
    Catch(prefix, FirstError(<<root, force, alter>>),
          ModelSyncConfiguration(force.inner, alter.inner))

\* The members Sync.Default reads from its sub-tree of the default document.
SyncDefaultMembers(root) ==
    SyncBuild("Load default model sync configuration error.", root,
        boolean(notNull(sub(root, "force"))),
        boolean(notNull(sub(root, "alter"))))

SyncDefaultRead(cfg) ==
    IF ~cfg.ok THEN cfg
    ELSE SyncDefaultMembers(
             typeOfObject(notNull(sub(WrapObject(cfg.v), "sync"))))

SyncDefault == SyncDefaultRead(ReadDefaultRawConfiguration)

\* The members Sync.From reads from raw, with their defaults.
SyncFromMembers(root, dcfg) ==
    SyncBuild("Load model sync configuration error.", root,
        boolean(notNull(optionalSub(root, "force", dcfg.force))),
        boolean(notNull(optionalSub(root, "alter", dcfg.alter))))

SyncFromWith(cfg, dcfg) ==
    IF ~dcfg.ok THEN dcfg
    ELSE SyncFromMembers(typeOfObject(notNull(WrapObject(cfg))), dcfg.v)

SyncFrom(cfg) == SyncFromWith(cfg, SyncDefault)

\* Variant: a pool whose min exceeds its max is rejected.
PoolBuild_Checked(prefix, root, max, min, idle, acquire, evict) ==
    IF FirstError(<<root, max, min, idle, acquire, evict>>) = NoError
       /\ min.inner.n > max.inner.n
    THEN Throw(ConfigurationError(Format(prefix, <<"Invalid range.", "min">>)))
    ELSE Catch(prefix, FirstError(<<root, max, min, idle, acquire, evict>>),
               ModelPoolConfiguration(max.inner, min.inner, idle.inner, acquire.inner, evict.inner))

\* The end of the try block of Pool.Default and Pool.From: the catch clause
\* when a statement threw, the constructor call otherwise.
PoolBuild(prefix, root, max, min, idle, acquire, evict) ==
    Catch(prefix, FirstError(<<root, max, min, idle, acquire, evict>>),
          ModelPoolConfiguration(max.inner, min.inner, idle.inner, acquire.inner, evict.inner))

\* The members Pool.Default reads from its sub-tree of the default document.
PoolDefaultMembers(root) ==
    PoolBuild("Load default model pool configuration error.", root,
        integer(notNull(sub(root, "max"))),
        integer(notNull(sub(root, "min"))),
        integer(notNull(sub(root, "idle"))),
        integer(notNull(sub(root, "acquire"))),
        integer(notNull(sub(root, "evict"))))

PoolDefaultRead(cfg) ==
    IF ~cfg.ok THEN cfg
    ELSE PoolDefaultMembers(
             typeOfObject(notNull(sub(WrapObject(cfg.v), "pool"))))

PoolDefault == PoolDefaultRead(ReadDefaultRawConfiguration)

\* The members Pool.From reads from raw, with their defaults.
PoolFromMembers(root, dcfg) ==
    PoolBuild("Load model pool configuration error.", root,
        integer(notNull(optionalSub(root, "max", dcfg.max))),
        integer(notNull(optionalSub(root, "min", dcfg.min))),
        integer(notNull(optionalSub(root, "idle", dcfg.idle))),
        integer(notNull(optionalSub(root, "acquire", dcfg.acquire))),
        integer(notNull(optionalSub(root, "evict", dcfg.evict))))

PoolFromWith(cfg, dcfg) ==
    IF ~dcfg.ok THEN dcfg
    ELSE PoolFromMembers(typeOfObject(notNull(WrapObject(cfg))), dcfg.v)

PoolFrom(cfg) == PoolFromWith(cfg, PoolDefault)

\* The end of the try block of Transaction.Default and Transaction.From: the catch clause
\* when a statement threw, the constructor call otherwise.
TransactionBuild(prefix, root, type, isolationLevel) ==
    Catch(prefix, FirstError(<<root, type, isolationLevel>>),
          ModelTransactionConfiguration(type.inner, isolationLevel.inner))

\* The members Transaction.Default reads from its sub-tree of the default document.
TransactionDefaultMembers(root) ==
    TransactionBuild("Load default model transaction configuration.", root,
        string(notNull(sub(root, "type"))),
        string(notNull(sub(root, "isolation-level"))))

TransactionDefaultRead(cfg) ==
    IF ~cfg.ok THEN cfg
    ELSE TransactionDefaultMembers(
             typeOfObject(notNull(sub(WrapObject(cfg.v), "transaction"))))

TransactionDefault == TransactionDefaultRead(ReadDefaultRawConfiguration)

\* Variant: the isolation level is read from the camel-case key.
TransactionFromMembers_CamelCase(root, dcfg) ==
    TransactionBuild("Load model transaction configuration.", root,
        string(notNull(optionalSub(root, "type", dcfg.type))),
        string(notNull(optionalSub(root, "isolationLevel", dcfg.isolationLevel))))

\* The members Transaction.From reads from raw, with their defaults.
TransactionFromMembers(root, dcfg) ==
    TransactionBuild("Load model transaction configuration.", root,
        string(notNull(optionalSub(root, "type", dcfg.type))),
        string(notNull(optionalSub(root, "isolation-level", dcfg.isolationLevel))))

TransactionFromWith(cfg, dcfg) ==
    IF ~dcfg.ok THEN dcfg
    ELSE TransactionFromMembers(typeOfObject(notNull(WrapObject(cfg))), dcfg.v)

TransactionFrom(cfg) == TransactionFromWith(cfg, TransactionDefault)

\* The end of the try block of Retry.Default and Retry.From: the catch clause
\* when a statement threw, the constructor call otherwise.
RetryBuild(prefix, root, max) ==
    Catch(prefix, FirstError(<<root, max>>),
          ModelRetryConfiguration(max.inner))

\* The members Retry.Default reads from its sub-tree of the default document.
RetryDefaultMembers(root) ==
    RetryBuild("Load model retry configuration error.", root,
        integer(notNull(sub(root, "max"))))

RetryDefaultRead(cfg) ==
    IF ~cfg.ok THEN cfg
    ELSE RetryDefaultMembers(
             typeOfObject(notNull(sub(WrapObject(cfg.v), "retry"))))

RetryDefault == RetryDefaultRead(ReadDefaultRawConfiguration)

\* The members Retry.From reads from raw, with their defaults.
RetryFromMembers(root, dcfg) ==
    RetryBuild("Load model retry configuration error.", root,
        integer(notNull(optionalSub(root, "max", dcfg.max))))

RetryFromWith(cfg, dcfg) ==
    IF ~dcfg.ok THEN dcfg
    ELSE RetryFromMembers(typeOfObject(notNull(WrapObject(cfg))), dcfg.v)

RetryFrom(cfg) == RetryFromWith(cfg, RetryDefault)

(***************************************************************************)
(* Aggregate builder.                                                      *)
(***************************************************************************)
\* The nested From calls run in statement order; the first that throws
\* ends the caller, its error unchanged.
RECURSIVE FirstThrow(_)
FirstThrow(results) ==
    IF results = <<>> THEN NoError
    ELSE IF ~Head(results).ok THEN Head(results).err
    ELSE FirstThrow(Tail(results))

\* The values the try block of ModelConfiguration.Default / From leaves in
\* its local variables.
ModelLocals(host, port, username, password, database, dialect, protocol, sync, logging, omitNull, pool, transaction, retry, operatorsAliases) ==
    [host |-> host.inner, port |-> port.inner, username |-> username.inner,
     password |-> password.inner, database |-> database.inner,
     dialect |-> dialect.inner, protocol |-> protocol.inner,
     sync |-> sync.inner, logging |-> logging.inner,
     omitNull |-> omitNull.inner, pool |-> pool.inner,
     transaction |-> transaction.inner, retry |-> retry.inner,
     operatorsAliases |-> operatorsAliases.inner]

\* The statements of the try block, in order.
ModelSteps(root, host, port, username, password, database, dialect, protocol, sync, logging, omitNull, pool, transaction, retry, operatorsAliases) ==
    <<root, host, port, username, password, database, dialect, protocol, sync, logging, omitNull, pool, transaction, retry, operatorsAliases>>

\* Variant: the error of a nested From is caught and wrapped again.
ModelReturn_Rewrapped(locals, nested, syncCfg, poolCfg, transactionCfg, retryCfg) ==
    IF nested # NoError
    THEN Throw(ConfigurationError(
                   Format("Load model configuration error.", nested.message)))
    ELSE Ok(ModelConfiguration(
             locals.host, locals.port, locals.username, locals.password,
             locals.database, locals.dialect, locals.protocol, syncCfg.v,
             locals.logging, locals.omitNull, poolCfg.v, transactionCfg.v,
             retryCfg.v, locals.operatorsAliases))

\* return new ModelConfiguration(...), unless a nested From threw
ModelReturn(locals, nested, syncCfg, poolCfg, transactionCfg, retryCfg) ==
    IF nested # NoError THEN Throw(nested)
    ELSE Ok(ModelConfiguration(
             locals.host, locals.port, locals.username, locals.password,
             locals.database, locals.dialect, locals.protocol, syncCfg.v,
             locals.logging, locals.omitNull, poolCfg.v, transactionCfg.v,
             retryCfg.v, locals.operatorsAliases))

\* catch (error) { throw new ModelConfigurationError(error.message) }
ModelDefaultCatch(error, locals) ==
    IF error # NoError THEN Throw(ConfigurationError(error.message))
    ELSE Ok(locals)

ModelDefaultTry(root, host, port, username, password, database, dialect, protocol, sync, logging, omitNull, pool, transaction, retry, operatorsAliases) ==
    ModelDefaultCatch(
        FirstError(ModelSteps(root, host, port, username, password, database, dialect, protocol, sync, logging, omitNull, pool, transaction, retry, operatorsAliases)),
        ModelLocals(host, port, username, password, database, dialect, protocol, sync, logging, omitNull, pool, transaction, retry, operatorsAliases))

\* The members ModelConfiguration.Default reads from the default document.
ModelDefaultMembers(root) ==
    ModelDefaultTry(root,
        string(notNull(sub(root, "host"))),
        integer(notNull(sub(root, "port"))),
        string(sub(root, "username")),
        string(sub(root, "password")),
        string(sub(root, "database")),
        string(notNull(sub(root, "dialect"))),
        string(notNull(sub(root, "protocol"))),
        typeOfObject(notNull(sub(root, "sync"))),
        boolean(notNull(sub(root, "logging"))),
        boolean(notNull(sub(root, "omit-null"))),
        typeOfObject(notNull(sub(root, "pool"))),
        typeOfObject(notNull(sub(root, "transaction"))),
        typeOfObject(notNull(sub(root, "retry"))),
        typeOfObject(sub(root, "operators-aliases")))

\* Nested From calls of ModelConfiguration.Default: sync, pool,
\* transaction, retry.
ModelDefaultNested(locals, syncCfg, poolCfg, transactionCfg, retryCfg) ==
    ModelReturn(locals,
                FirstThrow(<<syncCfg, poolCfg, transactionCfg, retryCfg>>),
                syncCfg, poolCfg, transactionCfg, retryCfg)

ModelDefaultSub(try) ==
    IF ~try.ok THEN try
    ELSE ModelDefaultNested(try.v, SyncFrom(try.v.sync), PoolFrom(try.v.pool),
                            TransactionFrom(try.v.transaction),
                            RetryFrom(try.v.retry))

ModelDefaultRead(cfg) ==
    IF ~cfg.ok THEN cfg
    ELSE ModelDefaultSub(
             ModelDefaultMembers(typeOfObject(notNull(WrapObject(cfg.v)))))

ModelDefault == ModelDefaultRead(ReadDefaultRawConfiguration)

ModelFromTry(root, host, port, username, password, database, dialect, protocol, sync, logging, omitNull, pool, transaction, retry, operatorsAliases) ==
    Catch("Load model configuration error.",
          FirstError(ModelSteps(root, host, port, username, password, database, dialect, protocol, sync, logging, omitNull, pool, transaction, retry, operatorsAliases)),
          ModelLocals(host, port, username, password, database, dialect, protocol, sync, logging, omitNull, pool, transaction, retry, operatorsAliases))

\* The members ModelConfiguration.From reads from raw, with their defaults.
ModelFromMembers(root, dcfg) ==
    ModelFromTry(root,
        string(notNull(optionalSub(root, "host", dcfg.host))),
        integer(notNull(optionalSub(root, "port", dcfg.port))),
        string(optionalSub(root, "username", dcfg.username)),
        string(optionalSub(root, "password", dcfg.password)),
        string(optionalSub(root, "database", dcfg.database)),
        string(notNull(optionalSub(root, "dialect", dcfg.dialect))),
        string(notNull(optionalSub(root, "protocol", dcfg.protocol))),
        typeOfObject(notNull(optionalSub(root, "sync", EmptyObject))),
        boolean(notNull(optionalSub(root, "logging", dcfg.logging))),
        boolean(notNull(optionalSub(root, "omit-null", dcfg.omitNull))),
        typeOfObject(notNull(optionalSub(root, "pool", EmptyObject))),
        typeOfObject(notNull(optionalSub(root, "transaction", EmptyObject))),
        typeOfObject(notNull(optionalSub(root, "retry", EmptyObject))),
        typeOfObject(optionalSub(root, "operators-aliases",
                                 dcfg.operatorsAliases)))

\* Nested From calls of ModelConfiguration.From: sync, transaction, pool,
\* retry.
ModelFromNested(locals, syncCfg, transactionCfg, poolCfg, retryCfg) ==
    ModelReturn(locals,
                FirstThrow(<<syncCfg, transactionCfg, poolCfg, retryCfg>>),
                syncCfg, poolCfg, transactionCfg, retryCfg)

ModelFromSub(try) ==
    IF ~try.ok THEN try
    ELSE ModelFromNested(try.v, SyncFrom(try.v.sync),
                         TransactionFrom(try.v.transaction),
                         PoolFrom(try.v.pool), RetryFrom(try.v.retry))

ModelFromWith(cfg, dcfg) ==
    IF ~dcfg.ok THEN dcfg
    ELSE ModelFromSub(
             ModelFromMembers(typeOfObject(notNull(WrapObject(cfg))), dcfg.v))

ModelFrom(cfg) == ModelFromWith(cfg, ModelDefault)

(***************************************************************************)
(* Factory errors and the external client.                                 *)
(***************************************************************************)
\* Variant: the caught error is thrown again as it is.
SequelizeFactoryConfigurationError_Rethrown(error) == error

\* new SequelizeFactoryConfigurationError(error): the message is the caught
\* error object itself.
SequelizeFactoryConfigurationError(error) ==
    [class |-> "SequelizeFactoryConfigurationError",
     message |-> error.message, wraps |-> error.class]

\* Variant: the message is formatted into a new text.
SequelizeFactoryAuthenticateError_Formatted(message) ==
    [class |-> "SequelizeFactoryAuthenticateError",
     message |-> Format("Authenticate error.", message), wraps |-> ""]

\* new SequelizeFactoryAuthenticateError(error.message)
SequelizeFactoryAuthenticateError(message) ==
    [class |-> "SequelizeFactoryAuthenticateError", message |-> message,
     wraps |-> ""]

\* Dialects the external client has a connector for.
SupportedDialects == {"mysql", "postgres", "sqlite", "mariadb", "mssql"}

\* new Sequelize(options): the constructor throws its own error for a
\* dialect it has no connector for.
NewSequelize(options) ==
    IF options.dialect.s \in SupportedDialects
    THEN Ok(options)
    ELSE Throw(Err("Error", <<"The dialect is not supported.">>))

\* Messages with which sequelize.authenticate() may reject.
AuthenticateFailures == {<<"ECONNREFUSED">>, <<"Access denied for user">>}

NoClient == [made |-> FALSE, options |-> JNull]
Pending == [state |-> "pending", error |-> NoError]
Resolved == [state |-> "resolved", error |-> NoError]
Rejected(e) == [state |-> "rejected", error |-> e]
\* Ways in which the promise of sequelize.authenticate() may settle.
AuthenticateResults ==
    {Resolved} \cup { Rejected(Err("SequelizeConnectionError", m)) :
                        m \in AuthenticateFailures }

NoCall == [op |-> "", builder |-> "", arg |-> JNull, out |-> Ok(JNull)]
NotLoaded == Ok(JNull)
NoArg == [cfg |-> JNull, wait |-> FALSE]
\* The locals of a create() call that has not started.
NoSecond ==
    [pc |-> "idle", arg |-> NoArg, modelCfg |-> NotLoaded,
     sequelize |-> NoClient, ctorCalls |-> 0, authCalls |-> 0,
     authResult |-> Pending, outcome |-> Pending]

(***************************************************************************)
(* Inputs.                                                                 *)
(***************************************************************************)
\* Objects with at most maxKeys of the keys, each with one of the values.
RawObjects(keys, values, maxKeys) ==
    UNION { { JObj(f) : f \in [d -> values] } :
            d \in { d \in SUBSET keys : Cardinality(d) <= maxKeys } }

\* Objects with exactly one of the keys.
SingleMember(keys, values) == { JObj(k :> v) : k \in keys, v \in values }

NotAnObject == {JNull, JStr("5")}

LeafSamples ==
    {JNull, JBool(TRUE), JInt(7), JFrac(5), JStr("5"), JStr("postgres")}

Builders == {"Sync", "Pool", "Transaction", "Retry", "Model"}
NestedBuilders == Builders \ {"Model"}

\* The keys a builder's From reads from raw.
KeysOf(builder) ==
    CASE builder = "Sync" -> {"force", "alter"}
      [] builder = "Pool" -> {"max", "min", "idle", "acquire", "evict"}
      [] builder = "Transaction" -> {"type", "isolation-level"}
      [] builder = "Retry" -> {"max"}
      [] builder = "Model" ->
            {"host", "port", "username", "password", "database", "dialect",
             "protocol", "sync", "logging", "omit-null", "pool",
             "transaction", "retry", "operators-aliases"}

\* The type a builder's From asserts for a key.
KindOf(builder, key) ==
    CASE builder = "Sync" -> "bool"
      [] builder = "Pool" -> "int"
      [] builder = "Transaction" -> "str"
      [] builder = "Retry" -> "int"
      [] builder = "Model" ->
            IF key \in {"port"} THEN "int"
            ELSE IF key \in {"logging", "omit-null"} THEN "bool"
            ELSE IF key \in {"sync", "pool", "transaction", "retry",
                             "operators-aliases"} THEN "obj"
            ELSE "str"

\* The keys for which a builder's From does not call notNull().
Nullable(builder) ==
    IF builder = "Model"
    THEN {"username", "password", "database", "operators-aliases"}
    ELSE {}

Groups == {"sync", "pool", "transaction", "retry"}

BuilderOfGroup(group) ==
    CASE group = "sync" -> "Sync"
      [] group = "pool" -> "Pool"
      [] group = "transaction" -> "Transaction"
      [] group = "retry" -> "Retry"

\* Raws of a nested builder beyond the combinations of LeafSamples: text
\* that looks like a boolean or a number, values outside the documented
\* sets, a raw that supplies every member, camel-case keys.
NestedExamples(builder) ==
    CASE builder = "Sync" ->
            { JObj([force |-> JStr("true")]), JObj([alter |-> JStr("false")]),
              JObj([force |-> JInt(1)]), JObj([alter |-> JInt(0)]),
              JObj([force |-> JBool(FALSE), alter |-> JBool(TRUE)]) }
      [] builder = "Pool" ->
            { JObj([max |-> JInt(1), min |-> JInt(7)]),
              JObj([max |-> JInt(-1), min |-> JInt(0), idle |-> JInt(0)]),
              JObj([max |-> JInt(9), min |-> JInt(2), idle |-> JInt(1),
                    acquire |-> JInt(2), evict |-> JInt(3)]),
              JObj([idle |-> JFrac(10000)]), JObj([acquire |-> JStr("60000")]),
              JObj([evict |-> JBool(TRUE)]) }
      [] builder = "Transaction" ->
            { JObj(("type" :> JStr("NESTED")) @@
                   ("isolation-level" :> JStr("SNAPSHOT"))),
              JObj("isolationLevel" :> JStr("SERIALIZABLE")),
              JObj(("isolationLevel" :> JStr("SERIALIZABLE")) @@
                   ("isolation-level" :> JStr("REPEATABLE_READ"))),
              JObj("type" :> JBool(TRUE)) }
      [] builder = "Retry" ->
            { JObj([max |-> JStr("4")]), JObj([max |-> JInt(-1)]),
              JObj([max |-> JInt(0)]) }

NestedRaws(builder) ==
    RawObjects(KeysOf(builder), LeafSamples, MaxNestedKeys) \cup NotAnObject
    \cup NestedExamples(builder)

\* Values tried for a key of the top-level raw.
TopSamples(key) ==
    IF key \in Groups
    THEN NotAnObject \cup {EmptyObject}
         \cup SingleMember(KeysOf(BuilderOfGroup(key)), LeafSamples)
    ELSE LeafSamples \cup {Opaque("ops")}

\* Raw configurations with several keys: those of the documentation, and
\* combinations of supplied, null and mistyped members.
ExampleRaws ==
    { JObj(("dialect" :> JStr("mysql")) @@ ("host" :> JStr("127.0.0.1")) @@
           ("port" :> JInt(3306)) @@
           ("pool" :> JObj([max |-> JInt(5)]))),
      JObj(("username" :> JStr("xxx")) @@ ("password" :> JStr("xxx")) @@
           ("host" :> JStr("127.0.0.1")) @@ ("port" :> JInt(3306)) @@
           ("database" :> JStr("xxx")) @@ ("dialect" :> JStr("mysql")) @@
           ("logging" :> JBool(FALSE)) @@
           ("pool" :> JObj([max |-> JInt(5), min |-> JInt(0),
                            acquire |-> JInt(30000),
                            idle |-> JInt(10000)]))),
      JObj("port" :> JStr("not-a-number")),
      JObj(("username" :> JNull) @@ ("host" :> JStr("db")) @@
           ("operators-aliases" :> JNull) @@
           ("retry" :> JObj([max |-> JInt(0)]))),
      JObj(("dialect" :> JStr("oracle")) @@ ("logging" :> JBool(TRUE)) @@
           ("sync" :> JObj([force |-> JBool(TRUE)])) @@
           ("transaction" :> JObj("type" :> JStr("IMMEDIATE")))),
      JObj(("pool" :> JObj([max |-> JStr("5")])) @@
           ("sync" :> JObj([alter |-> JInt(7)])) @@
           ("transaction" :> JObj("type" :> JInt(7)))),
      JObj(("port" :> JFrac(5)) @@ ("pool" :> JObj([min |-> JNull]))),
      JObj(("omitNull" :> JBool(TRUE)) @@
           ("operatorsAliases" :> Opaque("ops")) @@
           ("transaction" :> JObj("isolationLevel" :> JStr("SERIALIZABLE")))),
      JObj(("omit-null" :> JBool(TRUE)) @@ ("omitNull" :> JBool(FALSE)) @@
           ("operators-aliases" :> Opaque("ops")) @@
           ("transaction" :>
               JObj(("isolation-level" :> JStr("SERIALIZABLE")) @@
                    ("isolationLevel" :> JStr("READ_UNCOMMITTED"))))),
      JObj("omit-null" :> JStr("true")),
      JObj("logging" :> JStr("false")),
      JObj(("logging" :> JInt(0)) @@ ("port" :> JInt(5432))),
      JObj(("dialect" :> JStr("postgres")) @@ ("protocol" :> JStr("5")) @@
           ("pool" :> JObj([max |-> JInt(1), min |-> JInt(7)])) @@
           ("transaction" :>
               JObj(("type" :> JStr("NESTED")) @@
                    ("isolation-level" :> JStr("SNAPSHOT"))))) }

TopRaws ==
    UNION { { JObj(f) : f \in { g \in [d -> UNION { TopSamples(k) : k \in d }] :
                                  \A k \in d : g[k] \in TopSamples(k) } } :
            d \in { d \in SUBSET KeysOf("Model") :
                      Cardinality(d) <= MaxTopKeys } }
    \cup NotAnObject \cup ExampleRaws

RawsOf(builder) ==
    IF builder = "Model" THEN TopRaws ELSE NestedRaws(builder)

(***************************************************************************)
(* Public synchronous API.                                                 *)
(***************************************************************************)
BuilderDefault(builder) ==
    CASE builder = "Sync" -> SyncDefault
      [] builder = "Pool" -> PoolDefault
      [] builder = "Transaction" -> TransactionDefault
      [] builder = "Retry" -> RetryDefault
      [] builder = "Model" -> ModelDefault

BuilderFrom(builder, cfg) ==
    CASE builder = "Sync" -> SyncFrom(cfg)
      [] builder = "Pool" -> PoolFrom(cfg)
      [] builder = "Transaction" -> TransactionFrom(cfg)
      [] builder = "Retry" -> RetryFrom(cfg)
      [] builder = "Model" -> ModelFrom(cfg)

(***************************************************************************)
(* How often a call runs ReadDefaultRawConfiguration(). Every Default()    *)
(* starts with one call of it, and every From starts with its Default().   *)
(***************************************************************************)
\* The calls made of a sequence of calls that ends at the first throw.
RECURSIVE CallsUntilThrow(_)
CallsUntilThrow(results) ==
    IF results = <<>> THEN 0
    ELSE IF ~Head(results).ok THEN 1
    ELSE 1 + CallsUntilThrow(Tail(results))

\* ModelConfiguration.Default: the four nested From calls after the try.
ModelDefaultSubReads(try) ==
    IF ~try.ok THEN 0
    ELSE CallsUntilThrow(<<SyncFrom(try.v.sync), PoolFrom(try.v.pool),
                           TransactionFrom(try.v.transaction),
                           RetryFrom(try.v.retry)>>)

ModelDefaultReadsOf(cfg) ==
    IF ~cfg.ok THEN 1
    ELSE 1 + ModelDefaultSubReads(
                 ModelDefaultMembers(typeOfObject(notNull(WrapObject(cfg.v)))))

ModelDefaultReads == ModelDefaultReadsOf(ReadDefaultRawConfiguration)

\* ModelConfiguration.From: the four nested From calls after the try.
ModelFromSubReads(try) ==
    IF ~try.ok THEN 0
    ELSE CallsUntilThrow(<<SyncFrom(try.v.sync),
                           TransactionFrom(try.v.transaction),
                           PoolFrom(try.v.pool), RetryFrom(try.v.retry)>>)

\* Variant: the document is read by the first Default() only and kept.
ModelFromReadsOf_Cached(cfg, dcfg) == 1

ModelFromReadsOf(cfg, dcfg) ==
    IF ~dcfg.ok THEN ModelDefaultReads
    ELSE ModelDefaultReads
         + ModelFromSubReads(
               ModelFromMembers(typeOfObject(notNull(WrapObject(cfg))),
                                dcfg.v))

ModelFromReads(cfg) == ModelFromReadsOf(cfg, ModelDefault)

BuilderReads(op, builder, cfg) ==
    IF builder # "Model" THEN 1
    ELSE IF op = "Default" THEN ModelDefaultReads
    ELSE ModelFromReads(cfg)

(***************************************************************************)
(* The state machine: one caller issuing one operation at a time.          *)
(***************************************************************************)
Init ==
    /\ file \in DefaultFiles
    /\ pc = "idle"
    /\ arg = NoArg
    /\ modelCfg = NotLoaded
    /\ sequelize = NoClient
    /\ ctorCalls = 0
    /\ authCalls = 0
    /\ authResult = Pending
    /\ outcome = Pending
    /\ res = NoCall
    /\ reads = 0
    /\ second = NoSecond
    /\ stepLog = <<>>

\* The same, for an installation whose default document may be damaged.
InitInstalled ==
    /\ file \in DefaultFiles \cup BrokenFiles
    /\ pc = "idle"
    /\ arg = NoArg
    /\ modelCfg = NotLoaded
    /\ sequelize = NoClient
    /\ ctorCalls = 0
    /\ authCalls = 0
    /\ authResult = Pending
    /\ outcome = Pending
    /\ res = NoCall
    /\ reads = 0
    /\ second = NoSecond
    /\ stepLog = <<>>

Ready == pc = "idle" /\ res = NoCall

\* <Builder>.Default()
CallDefault(builder) ==
    /\ Ready
    /\ res' = [op |-> "Default", builder |-> builder, arg |-> JNull,
               out |-> BuilderDefault(builder)]
    /\ reads' = BuilderReads("Default", builder, JNull)
    /\ UNCHANGED <<file, pc, arg, modelCfg, sequelize, ctorCalls, authCalls,
                   authResult, outcome, second, stepLog>>

\* <Builder>.From(cfg)
CallFrom(builder, cfg) ==
    /\ Ready
    /\ res' = [op |-> "From", builder |-> builder, arg |-> cfg,
               out |-> BuilderFrom(builder, cfg)]
    /\ reads' = BuilderReads("From", builder, cfg)
    /\ UNCHANGED <<file, pc, arg, modelCfg, sequelize, ctorCalls, authCalls,
                   authResult, outcome, second, stepLog>>

\* modelCfg.toObject() on the configuration the last call returned
CallToObject ==
    /\ pc = "idle"
    /\ res.op \in {"Default", "From"}
    /\ res.builder = "Model"
    /\ res.out.ok
    /\ res' = [op |-> "toObject", builder |-> "Model", arg |-> res.out.v,
               out |-> Ok(ToObject(res.out.v))]
    /\ reads' = 0
    /\ UNCHANGED <<file, pc, arg, modelCfg, sequelize, ctorCalls, authCalls,
                   authResult, outcome, second, stepLog>>

\* create(): new Sequelize(modelCfg.toObject()) and what follows, up to the
\* await or the end of the call
Construct(waitForAuthenticate, client) ==
    /\ ctorCalls' = ctorCalls + 1
    /\ IF ~client.ok
       THEN /\ outcome' = Rejected(client.err)
            /\ pc' = "done"
            /\ stepLog' = stepLog \o <<"validate", "construct", "throw">>
            /\ UNCHANGED <<sequelize, authCalls>>
       ELSE /\ sequelize' = [made |-> TRUE, options |-> client.v]
            /\ IF waitForAuthenticate
               THEN /\ authCalls' = authCalls + 1
                    /\ pc' = "awaiting"
                    /\ outcome' = Pending
                    /\ stepLog' = stepLog \o <<"validate", "construct",
                                            "authenticate">>
               ELSE /\ authCalls' = authCalls
                    /\ pc' = "done"
                    /\ outcome' = Resolved
                    /\ stepLog' = stepLog \o <<"validate", "construct",
                                            "return">>

\* create(): the try block around ModelConfiguration.From(cfg), then the
\* rest of the call
Load(waitForAuthenticate, loaded) ==
    /\ modelCfg' = loaded
    /\ IF ~loaded.ok
       THEN /\ outcome' =
                   Rejected(SequelizeFactoryConfigurationError(loaded.err))
            /\ pc' = "done"
            /\ stepLog' = stepLog \o <<"validate", "throw">>
            /\ UNCHANGED <<sequelize, ctorCalls, authCalls>>
       ELSE Construct(waitForAuthenticate, NewSequelize(ToObject(loaded.v)))

\* factory.create(cfg, waitForAuthenticate), up to its await or its end
Create(cfg, waitForAuthenticate) ==
    /\ Ready
    /\ arg' = [cfg |-> cfg, wait |-> waitForAuthenticate]
    /\ Load(waitForAuthenticate, ModelFrom(cfg))
    /\ reads' = ModelFromReads(cfg)
    /\ UNCHANGED <<file, authResult, res, second>>

\* The promise of sequelize.authenticate() settles (external client).
AuthenticateSettles(result) ==
    /\ pc = "awaiting"
    /\ authResult.state = "pending"
    /\ authResult' = result
    /\ UNCHANGED <<file, pc, arg, modelCfg, sequelize, ctorCalls, authCalls,
                   outcome, res, reads, second, stepLog>>

\* Variant: the call gives up waiting, whether or not authenticate() has
\* settled.
Resume_TimedOut ==
    /\ pc = "awaiting"
    /\ pc' = "done"
    /\ outcome' =
          IF authResult.state = "resolved" THEN Resolved
          ELSE Rejected(SequelizeFactoryAuthenticateError(<<"ETIMEDOUT">>))
    /\ stepLog' = stepLog \o <<IF authResult.state = "resolved"
                            THEN "return" ELSE "throw">>
    /\ UNCHANGED <<file, arg, modelCfg, sequelize, ctorCalls, authCalls,
                   authResult, res, reads, second>>

\* Variant: a failed authenticate() is tried again, up to retry.max times.
Resume_Retrying ==
    /\ pc = "awaiting"
    /\ authResult.state # "pending"
    /\ IF authResult.state = "rejected"
          /\ authCalls <= modelCfg.v.retryCfg.max.n
       THEN /\ authCalls' = authCalls + 1
            /\ authResult' = Pending
            /\ stepLog' = stepLog \o <<"authenticate">>
            /\ UNCHANGED <<pc, outcome>>
       ELSE /\ pc' = "done"
            /\ outcome' =
                  IF authResult.state = "rejected"
                  THEN Rejected(SequelizeFactoryAuthenticateError(
                                    authResult.error.message))
                  ELSE Resolved
            /\ stepLog' = stepLog \o <<IF authResult.state = "rejected"
                                    THEN "throw" ELSE "return">>
            /\ UNCHANGED <<authCalls, authResult>>
    /\ UNCHANGED <<file, arg, modelCfg, sequelize, ctorCalls, res, reads,
                   second>>

\* create() resumes after its await: returns the client, or throws the
\* wrapped failure
Resume ==
    /\ pc = "awaiting"
    /\ authResult.state # "pending"
    /\ pc' = "done"
    /\ outcome' =
          IF authResult.state = "rejected"
          THEN Rejected(SequelizeFactoryAuthenticateError(
                            authResult.error.message))
          ELSE Resolved
    /\ stepLog' = stepLog \o <<IF authResult.state = "rejected"
                            THEN "throw" ELSE "return">>
    /\ UNCHANGED <<file, arg, modelCfg, sequelize, ctorCalls, authCalls,
                   authResult, res, reads, second>>

\* The caller drops the result and is ready for its next operation.
Forget ==
    /\ pc = "done" \/ (pc = "idle" /\ res # NoCall)
    /\ second = NoSecond
    /\ pc' = "idle"
    /\ arg' = NoArg
    /\ modelCfg' = NotLoaded
    /\ sequelize' = NoClient
    /\ ctorCalls' = 0
    /\ authCalls' = 0
    /\ authResult' = Pending
    /\ outcome' = Pending
    /\ res' = NoCall
    /\ reads' = 0
    /\ stepLog' = <<>>
    /\ UNCHANGED <<file, second>>

\* The caller starts an operation only when Ready; the guard is stated
\* before the choice of the arguments.
Next ==
    \/ Ready /\ \E b \in Builders : CallDefault(b)
    \/ Ready /\ \E b \in Builders : \E cfg \in RawsOf(b) : CallFrom(b, cfg)
    \/ CallToObject
    \/ Ready /\ \E cfg \in TopRaws : \E w \in BOOLEAN : Create(cfg, w)
    \/ \E r \in AuthenticateResults : AuthenticateSettles(r)
    \/ Resume
    \/ Forget

Spec == Init /\ [][Next]_vars

\* The continuation of an await runs once the awaited promise has settled;
\* nothing makes the external authenticate() settle.
SpecFair == Init /\ [][Next]_vars /\ WF_vars(Resume)

\* The same operations on an installation whose default document may be
\* damaged.
SpecInstalled == InitInstalled /\ [][Next]_vars

(***************************************************************************)
(* Two create() calls whose executions overlap. The locals of create()     *)
(* (modelCfg, sequelize) belong to the call: the first call keeps them in  *)
(* the variables above, the second in the record "second".                 *)
(***************************************************************************)
\* Raw configurations of the overlapping calls.
OverlapRaws == ExampleRaws \cup {EmptyObject}

\* Variant: the client is constructed from the options of the call that is
\* suspended, as if "sequelize" were shared by the calls.
SecondClient_Shared(options) == sequelize.options

\* new Sequelize(options) of the second call: the object it constructs
SecondClient(options) == options

\* create() of the second call: new Sequelize(modelCfg.toObject()) and what
\* follows, up to the await or the end of the call
ConstructCall(call, waitForAuthenticate, client) ==
    IF ~client.ok
    THEN [call EXCEPT !.ctorCalls = 1, !.outcome = Rejected(client.err),
                      !.pc = "done"]
    ELSE IF waitForAuthenticate
    THEN [call EXCEPT !.ctorCalls = 1,
                      !.sequelize = [made |-> TRUE,
                                     options |-> SecondClient(client.v)],
                      !.authCalls = 1, !.pc = "awaiting"]
    ELSE [call EXCEPT !.ctorCalls = 1,
                      !.sequelize = [made |-> TRUE,
                                     options |-> SecondClient(client.v)],
                      !.pc = "done", !.outcome = Resolved]

\* create() of the second call: the try block around
\* ModelConfiguration.From(cfg), then the rest of the call
LoadCall(call, waitForAuthenticate, loaded) ==
    IF ~loaded.ok
    THEN [call EXCEPT !.modelCfg = loaded,
                      !.outcome = Rejected(
                          SequelizeFactoryConfigurationError(loaded.err)),
                      !.pc = "done"]
    ELSE ConstructCall([call EXCEPT !.modelCfg = loaded],
                       waitForAuthenticate, NewSequelize(ToObject(loaded.v)))

\* factory.create(cfg, waitForAuthenticate) called while the first call is
\* suspended on authenticate, up to its await or its end
CreateOverlapping(cfg, waitForAuthenticate) ==
    /\ pc = "awaiting"
    /\ second.pc = "idle"
    /\ second' = LoadCall([NoSecond EXCEPT
                               !.arg = [cfg |-> cfg,
                                        wait |-> waitForAuthenticate]],
                          waitForAuthenticate, ModelFrom(cfg))
    /\ UNCHANGED <<file, pc, arg, modelCfg, sequelize, ctorCalls, authCalls,
                   authResult, outcome, res, reads, stepLog>>

\* The promise of the second client's authenticate() settles.
SecondAuthenticateSettles(result) ==
    /\ second.pc = "awaiting"
    /\ second.authResult.state = "pending"
    /\ second' = [second EXCEPT !.authResult = result]
    /\ UNCHANGED <<file, pc, arg, modelCfg, sequelize, ctorCalls, authCalls,
                   authResult, outcome, res, reads, stepLog>>

\* The second call resumes after its await.
SecondResume ==
    /\ second.pc = "awaiting"
    /\ second.authResult.state # "pending"
    /\ second' =
          [second EXCEPT
              !.pc = "done",
              !.outcome =
                  IF second.authResult.state = "rejected"
                  THEN Rejected(SequelizeFactoryAuthenticateError(
                                    second.authResult.error.message))
                  ELSE Resolved]
    /\ UNCHANGED <<file, pc, arg, modelCfg, sequelize, ctorCalls, authCalls,
                   authResult, outcome, res, reads, stepLog>>

NextOverlap ==
    \/ Ready /\ \E cfg \in OverlapRaws : \E w \in BOOLEAN : Create(cfg, w)
    \/ \E r \in AuthenticateResults : AuthenticateSettles(r)
    \/ Resume
    \/ \E cfg \in OverlapRaws : \E w \in BOOLEAN : CreateOverlapping(cfg, w)
    \/ \E r \in AuthenticateResults : SecondAuthenticateSettles(r)
    \/ SecondResume

SpecOverlap == Init /\ [][NextOverlap]_vars

TypeOK ==
    /\ pc \in {"idle", "awaiting", "done"}
    /\ ctorCalls \in 0..1
    /\ authCalls \in 0..1
    /\ outcome.state \in {"pending", "resolved", "rejected"}

(***************************************************************************)
(* Vocabulary of the properties.                                           *)
(***************************************************************************)
\* The accessor of the configuration object that holds the value read
\* from a raw key.
AccessorOf(key) ==
    CASE key = "omit-null" -> "omitNull"
      [] key = "isolation-level" -> "isolationLevel"
      [] key = "operators-aliases" -> "operatorsAliases"
      [] key = "sync" -> "syncCfg"
      [] key = "pool" -> "poolCfg"
      [] key = "transaction" -> "transactionCfg"
      [] key = "retry" -> "retryCfg"
      [] OTHER -> key

\* The sub-tree of the default document a builder reads.
DefaultTree(builder) ==
    CASE builder = "Sync" -> file.doc.f["sync"]
      [] builder = "Pool" -> file.doc.f["pool"]
      [] builder = "Transaction" -> file.doc.f["transaction"]
      [] builder = "Retry" -> file.doc.f["retry"]
      [] builder = "Model" -> file.doc

ScalarKeys == KeysOf("Model") \ Groups

\* A member is mistyped when it is not null and not of the declared type.
Mistyped(builder, raw) ==
    { k \in DOMAIN raw.f \cap KeysOf(builder) :
        raw.f[k].t \notin {"null", KindOf(builder, k)} }

\* A member is a misplaced null when it is null and the key is not nullable.
MisplacedNull(builder, raw) ==
    { k \in DOMAIN raw.f \cap KeysOf(builder) :
        raw.f[k].t = "null" /\ k \notin Nullable(builder) }

Offending(builder, raw) == Mistyped(builder, raw) \cup MisplacedNull(builder, raw)

\* The groups of a top-level raw that are objects.
SuppliedGroups(raw) == { g \in Groups \cap DOMAIN raw.f : raw.f[g].t = "obj" }

\* A raw object all of whose members, nested ones included, are valid.
Valid(builder, raw) ==
    /\ raw.t = "obj"
    /\ Offending(builder, raw) = {}
    /\ builder = "Model" =>
         \A g \in SuppliedGroups(raw) :
             Offending(BuilderOfGroup(g), raw.f[g]) = {}

FromCalled(builder) == res.op = "From" /\ res.builder = builder

\* The text a builder's From puts in front of a failure of its raw.
PrefixOf(builder) ==
    CASE builder = "Sync" -> "Load model sync configuration error."
      [] builder = "Pool" -> "Load model pool configuration error."
      [] builder = "Transaction" -> "Load model transaction configuration."
      [] builder = "Retry" -> "Load model retry configuration error."
      [] builder = "Model" -> "Load model configuration error."

\* The keys of the object handed to the external client.
SerializedKeys ==
    {"host", "port", "username", "password", "database", "dialect",
     "protocol", "sync", "logging", "omitNull", "pool", "transactionType",
     "isolationLevel", "retry", "operatorsAliases"}

Serializes(object, config) ==
    /\ DOMAIN object = SerializedKeys
    /\ \A k \in {"host", "port", "username", "password", "database",
                 "dialect", "protocol", "logging", "omitNull",
                 "operatorsAliases"} : object[k] = config[k]
    /\ object.transactionType = config.transactionCfg.type
    /\ object.isolationLevel = config.transactionCfg.isolationLevel
    /\ DOMAIN object.sync = {"force", "alter"}
    /\ \A k \in DOMAIN object.sync : object.sync[k] = config.syncCfg[k]
    /\ DOMAIN object.pool = {"max", "min", "idle", "acquire", "evict"}
    /\ \A k \in DOMAIN object.pool : object.pool[k] = config.poolCfg[k]
    /\ DOMAIN object.retry = {"max"}
    /\ \A k \in DOMAIN object.retry : object.retry[k] = config.retryCfg[k]

(***************************************************************************)
(* C1: for each nested builder (Sync, Pool, Transaction, Retry) and every  *)
(* raw object whose supplied members all have the declared type, From(raw) *)
(* returns a configuration in which every supplied field has exactly the   *)
(* supplied value and every omitted field the value of the default         *)
(* document.                                                               *)
(***************************************************************************)
C1_NestedFromRoundTrip ==
    \A b \in NestedBuilders :
        (FromCalled(b) /\ res.arg.t = "obj" /\ Offending(b, res.arg) = {}) =>
            /\ res.out.ok
            /\ \A k \in KeysOf(b) :
                  res.out.v[AccessorOf(k)] =
                      IF k \in DOMAIN res.arg.f THEN res.arg.f[k]
                      ELSE DefaultTree(b).f[k]

C1_Witness ==
    /\ FromCalled("Pool")
    /\ res.arg = JObj([max |-> JInt(7)])
    /\ res.out.ok
    /\ res.out.v.max = JInt(7)
    /\ res.out.v.min = JInt(0)
    /\ res.out.v.idle = JInt(10000)

(***************************************************************************)
(* C2: at every level (Model, Sync, Pool, Transaction, Retry), From        *)
(* applied to the empty object yields a configuration equal, field by      *)
(* field, to that level's Default().                                       *)
(***************************************************************************)
C2_FromEmptyIsDefault ==
    \A b \in Builders :
        (FromCalled(b) /\ res.arg = EmptyObject) =>
            /\ res.out.ok
            /\ BuilderDefault(b).ok
            /\ res.out.v = BuilderDefault(b).v

C2_Witness ==
    /\ FromCalled("Model")
    /\ res.arg = EmptyObject
    /\ res.out.ok
    /\ res.out.v.host = JStr("localhost")
    /\ res.out.v.poolCfg.max = JInt(5)

(***************************************************************************)
(* C3: ModelConfiguration.From(raw) succeeds and yields null for a field   *)
(* when raw supplies an explicit null for username, password, database or  *)
(* operators-aliases, and fails when raw supplies an explicit null for a   *)
(* field that is not nullable (host, port, dialect, protocol, logging,     *)
(* omit-null).                                                             *)
(***************************************************************************)
C3_NullableFields ==
    FromCalled("Model") /\ res.arg.t = "obj" =>
        /\ Valid("Model", res.arg) =>
             /\ res.out.ok
             /\ \A k \in Nullable("Model") \cap DOMAIN res.arg.f :
                    res.arg.f[k] = JNull => res.out.v[AccessorOf(k)] = JNull
        /\ (\E k \in {"host", "port", "dialect", "protocol", "logging",
                      "omit-null"} \cap DOMAIN res.arg.f :
                res.arg.f[k] = JNull) =>
             /\ ~res.out.ok
             /\ res.out.err.class = "ModelConfigurationError"

C3_Witness ==
    /\ FromCalled("Model")
    /\ "username" \in DOMAIN res.arg.f
    /\ res.arg.f["username"] = JNull
    /\ "host" \in DOMAIN res.arg.f
    /\ res.out.ok
    /\ res.out.v.username = JNull
    /\ res.out.v.host = JStr("db")

(***************************************************************************)
(* C4: when raw supplies a value of the wrong type for a field (pool.max   *)
(* given as the string "5"), From fails with a configuration error that    *)
(* reports a type mismatch and names an offending field of the raw.        *)
(***************************************************************************)
\* The error names an offending member of raw, read by the builder.
NamesOffending(builder, raw, message) ==
    LET field == message[Len(message)]
    IN  /\ Len(message) = 3
        /\ message[1] = PrefixOf(builder)
        /\ field \in Offending(builder, raw)
        /\ message[2] = IF field \in Mistyped(builder, raw)
                        THEN "Invalid type." ELSE "Null value."

C4_TypeMismatchNamesField ==
    \A b \in Builders :
        (/\ FromCalled(b)
         /\ res.arg.t = "obj"
         /\ \/ Mistyped(b, res.arg) # {}
            \/ /\ b = "Model"
               /\ \E g \in SuppliedGroups(res.arg) :
                      Mistyped(BuilderOfGroup(g), res.arg.f[g]) # {}) =>
            /\ ~res.out.ok
            /\ res.out.err.class = "ModelConfigurationError"
            /\ \/ NamesOffending(b, res.arg, res.out.err.message)
               \/ /\ b = "Model"
                  /\ Offending(b, res.arg) = {}
                  /\ \E g \in SuppliedGroups(res.arg) :
                         NamesOffending(BuilderOfGroup(g), res.arg.f[g],
                                        res.out.err.message)

C4_Witness ==
    /\ FromCalled("Model")
    /\ res.arg = JObj("pool" :> JObj([max |-> JStr("5")]))
    /\ ~res.out.ok
    /\ res.out.err.message =
           <<"Load model pool configuration error.", "Invalid type.", "max">>

(***************************************************************************)
(* C5: for every raw configuration that ModelConfiguration.From accepts,   *)
(* create(raw, false) resolves to a client without ever invoking the       *)
(* client's authenticate operation, and the client was constructed from    *)
(* ModelConfiguration.From(raw).toObject().                                *)
(***************************************************************************)
C5_CreateWithoutAuthenticate ==
    (pc # "idle" /\ ~arg.wait /\ modelCfg.ok) =>
        /\ pc = "done"
        /\ outcome.state = "resolved"
        /\ authCalls = 0
        /\ sequelize.made
        /\ Serializes(sequelize.options, modelCfg.v)

\* C5 as amended: for every raw configuration that ModelConfiguration.From
\* accepts, create(raw, false) never invokes authenticate and constructs the
\* client once, from ModelConfiguration.From(raw).toObject(); it resolves to
\* that client when the constructor accepts the serialized configuration
\* and rejects, leaving no client, when the constructor throws.
C5_Amended ==
    (pc # "idle" /\ ~arg.wait /\ modelCfg.ok) =>
        /\ pc = "done"
        /\ authCalls = 0
        /\ authResult = Pending
        /\ ctorCalls = 1
        /\ IF modelCfg.v.dialect.s \in SupportedDialects
           THEN /\ outcome.state = "resolved"
                /\ sequelize.made
                /\ Serializes(sequelize.options, modelCfg.v)
           ELSE /\ outcome.state = "rejected"
                /\ ~sequelize.made

C5_Witness ==
    /\ pc = "done"
    /\ ~arg.wait
    /\ arg.cfg = JObj(("dialect" :> JStr("mysql")) @@
                      ("host" :> JStr("127.0.0.1")) @@
                      ("port" :> JInt(3306)) @@
                      ("pool" :> JObj([max |-> JInt(5)])))
    /\ outcome.state = "resolved"
    /\ authCalls = 0
    /\ sequelize.made
    /\ sequelize.options.pool.max = JInt(5)
    /\ sequelize.options.pool.min = JInt(0)
    /\ sequelize.options.pool.idle = JInt(10000)
    /\ sequelize.options.host = JStr("127.0.0.1")

(***************************************************************************)
(* C6: for every raw configuration that ModelConfiguration.From rejects,   *)
(* create rejects with a configuration-kind factory error, and in that run *)
(* the external client is never constructed and authenticate is never      *)
(* invoked.                                                                *)
(***************************************************************************)
C6_InvalidRawRejectsBeforeClient ==
    (pc # "idle" /\ ~modelCfg.ok) =>
        /\ pc = "done"
        /\ outcome.state = "rejected"
        /\ outcome.error.class = "SequelizeFactoryConfigurationError"
        /\ outcome.error.wraps = "ModelConfigurationError"
        /\ outcome.error.message = modelCfg.err.message
        /\ ctorCalls = 0
        /\ ~sequelize.made
        /\ authCalls = 0

C6_Witness ==
    /\ pc = "done"
    /\ arg.cfg = JObj("port" :> JStr("not-a-number"))
    /\ arg.wait
    /\ outcome.state = "rejected"
    /\ outcome.error.class = "SequelizeFactoryConfigurationError"
    /\ ctorCalls = 0

(***************************************************************************)
(* C7: whenever create settles by rejecting, the rejection is a factory    *)
(* error of kind Configuration or Authenticate; no other error, in         *)
(* particular none raised while constructing the external client, escapes  *)
(* create unwrapped.                                                       *)
(***************************************************************************)
C7_OnlyFactoryErrors ==
    outcome.state = "rejected" =>
        outcome.error.class \in {"SequelizeFactoryConfigurationError",
                                 "SequelizeFactoryAuthenticateError"}

(***************************************************************************)
(* C8: when create is called with waitForAuthenticate true and the         *)
(* client's authenticate operation fails, create rejects with an           *)
(* Authenticate-kind factory error whose message is exactly the message of *)
(* the authenticate failure; this kind differs from the Configuration kind *)
(* raised for an invalid raw configuration.                                *)
(***************************************************************************)
C8_AuthenticateFailurePassthrough ==
    /\ authResult.state # "pending" => arg.wait /\ authCalls = 1
    /\ (pc = "done" /\ authResult.state = "rejected") =>
          /\ outcome.state = "rejected"
          /\ outcome.error.class = "SequelizeFactoryAuthenticateError"
          /\ outcome.error.message = authResult.error.message
          /\ outcome.error.wraps = ""
          /\ outcome.error.class #
                 SequelizeFactoryConfigurationError(NoError).class

C8_Witness ==
    /\ pc = "done"
    /\ arg.wait
    /\ authResult = Rejected(Err("SequelizeConnectionError",
                                 <<"ECONNREFUSED">>))
    /\ outcome.error.class = "SequelizeFactoryAuthenticateError"
    /\ outcome.error.message = <<"ECONNREFUSED">>

(***************************************************************************)
(* C9: for every ModelConfiguration, toObject() returns a flat object with *)
(* exactly the keys host, port, username, password, database, dialect,     *)
(* protocol, sync, logging, omitNull, pool, transactionType,               *)
(* isolationLevel, retry, operatorsAliases, each value equal to the        *)
(* corresponding accessor; sync, pool and retry are the nested group's own *)
(* serialization.                                                          *)
(***************************************************************************)
C9_ToObjectShape ==
    res.op = "toObject" => res.out.ok /\ Serializes(res.out.v, res.arg)

C9_Witness ==
    /\ res.op = "toObject"
    /\ res.arg.transactionCfg.type = JStr("IMMEDIATE")
    /\ res.out.v.transactionType = JStr("IMMEDIATE")
    /\ res.out.v.isolationLevel = JStr("READ_COMMITTED")
    /\ res.out.v.sync.force = JBool(TRUE)

(***************************************************************************)
(* C10: ModelConfiguration.From(raw) returns, for each top-level scalar    *)
(* field, the raw value when supplied and the default otherwise, and for   *)
(* each nested group the result of that group's From applied to the raw    *)
(* sub-object, or to the empty object when the group is absent from raw,   *)
(* so that an absent group is fully populated with the group's defaults.   *)
(***************************************************************************)
C10_ModelFromMerges ==
    (FromCalled("Model") /\ Valid("Model", res.arg)) =>
        /\ res.out.ok
        /\ \A k \in ScalarKeys :
              res.out.v[AccessorOf(k)] =
                  IF k \in DOMAIN res.arg.f THEN res.arg.f[k]
                  ELSE file.doc.f[k]
        /\ \A g \in Groups :
              LET b == BuilderOfGroup(g)
                  nested == res.out.v[AccessorOf(g)]
              IN  IF g \in DOMAIN res.arg.f
                  THEN nested = BuilderFrom(b, res.arg.f[g]).v
                  ELSE /\ nested = BuilderFrom(b, EmptyObject).v
                       /\ \A k \in KeysOf(b) :
                              nested[AccessorOf(k)] = file.doc.f[g].f[k]

C10_Witness ==
    /\ FromCalled("Model")
    /\ res.arg = JObj(("username" :> JNull) @@ ("host" :> JStr("db")) @@
                      ("operators-aliases" :> JNull) @@
                      ("retry" :> JObj([max |-> JInt(0)])))
    /\ res.out.ok
    /\ res.out.v.host = JStr("db")
    /\ res.out.v.port = JInt(3306)
    /\ res.out.v.retryCfg.max = JInt(0)
    /\ res.out.v.poolCfg.acquire = JInt(60000)

(***************************************************************************)
(* Vocabulary of the properties about the default document.                *)
(***************************************************************************)
\* The text that marks a failure of a component's default configuration,
\* after the pattern of Sync.Default and Pool.Default.
DefaultMarkerOf(builder) ==
    CASE builder = "Sync" -> "Load default model sync configuration error."
      [] builder = "Pool" -> "Load default model pool configuration error."
      [] builder = "Transaction" ->
            "Load default model transaction configuration."
      [] builder = "Retry" -> "Load default model retry configuration error."
      [] builder = "Model" -> "Load default model configuration error."

DefaultCalled(builder) == res.op = "Default" /\ res.builder = builder

\* An error that says: the default configuration of some component failed,
\* and that no From raises for a failure of its raw.
MarkedDefaultFailure(error) ==
    /\ error.class = "ModelConfigurationError"
    /\ error.message # <<>>
    /\ error.message[1] \in { DefaultMarkerOf(b) : b \in Builders }
    /\ error.message[1] \notin { PrefixOf(b) : b \in Builders }

(***************************************************************************)
(* C11: every failure of a builder's Default() (Sync, Pool, Transaction,   *)
(* Retry, Model), a failure to read or to parse the default document       *)
(* included, is a configuration error marked as a failure of the default   *)
(* configuration, which the user-configuration failure of the same         *)
(* component's From is not.                                                *)
(***************************************************************************)
C11_DefaultFailuresMarked ==
    (res.op = "Default" /\ ~res.out.ok) => MarkedDefaultFailure(res.out.err)

(***************************************************************************)
(* C12: two create calls whose executions overlap (the second starts while *)
(* the first is suspended on authenticate) do not affect each other: each  *)
(* resolves to a client constructed from its own raw configuration, or     *)
(* rejects for its own failure, exactly as it would when run alone.        *)
(***************************************************************************)
\* The locals of the first call, as a record.
FirstCall ==
    [pc |-> pc, arg |-> arg, modelCfg |-> modelCfg, sequelize |-> sequelize,
     ctorCalls |-> ctorCalls, authCalls |-> authCalls,
     authResult |-> authResult, outcome |-> outcome]

\* What a call that runs alone has done, given its arguments and the way
\* its own authenticate() settled.
AsWhenAlone(call) ==
    /\ call.modelCfg = ModelFrom(call.arg.cfg)
    /\ call.authResult.state # "pending" => call.authCalls = 1
    /\ call.authCalls = 1 => call.arg.wait /\ call.sequelize.made
    /\ call.sequelize.made =>
          /\ call.modelCfg.ok
          /\ call.sequelize.options = ToObject(ModelFrom(call.arg.cfg).v)
    /\ call.pc = "awaiting" => call.outcome = Pending /\ call.authCalls = 1
    /\ call.pc = "done" =>
          call.outcome =
             IF ~call.modelCfg.ok
             THEN Rejected(SequelizeFactoryConfigurationError(
                               call.modelCfg.err))
             ELSE IF ~NewSequelize(ToObject(call.modelCfg.v)).ok
             THEN Rejected(NewSequelize(ToObject(call.modelCfg.v)).err)
             ELSE IF call.arg.wait /\ call.authResult.state = "rejected"
             THEN Rejected(SequelizeFactoryAuthenticateError(
                               call.authResult.error.message))
             ELSE Resolved
    /\ (call.pc = "done" /\ call.outcome = Resolved) =>
          /\ call.sequelize.made
          /\ call.arg.wait => call.authResult = Resolved

C12_OverlappingCallsIndependent ==
    /\ pc # "idle" => AsWhenAlone(FirstCall)
    /\ second.pc # "idle" => AsWhenAlone(second)

C12_Witness ==
    /\ pc = "done"
    /\ second.pc = "done"
    /\ arg.cfg = JObj(("dialect" :> JStr("mysql")) @@
                      ("host" :> JStr("127.0.0.1")) @@
                      ("port" :> JInt(3306)) @@
                      ("pool" :> JObj([max |-> JInt(5)])))
    /\ second.arg.cfg = JObj(("username" :> JNull) @@ ("host" :> JStr("db")) @@
                             ("operators-aliases" :> JNull) @@
                             ("retry" :> JObj([max |-> JInt(0)])))
    /\ outcome = Resolved
    /\ second.outcome.state = "rejected"
    /\ second.outcome.error.class = "SequelizeFactoryAuthenticateError"
    /\ sequelize.options.host = JStr("127.0.0.1")
    /\ second.sequelize.options.host = JStr("db")
    /\ second.sequelize.options.retry.max = JInt(0)
    /\ sequelize.options.retry.max = JInt(4)

(***************************************************************************)
(* C13: in every From, a field that is present in raw with the value null  *)
(* is handled exactly like an absent field: the default value is           *)
(* substituted for it; a present non-null value is returned unchanged.     *)
(***************************************************************************)
\* The value the default document gives for a key a builder reads.
DefaultOf(builder, key) == DefaultTree(builder).f[key]

\* The members of raw that are null.
NullMembers(builder, raw) ==
    { k \in DOMAIN raw.f \cap KeysOf(builder) : raw.f[k] = JNull }

\* The keys of a builder whose value is stored as read (not a group).
LeafKeys(builder) ==
    IF builder = "Model" THEN ScalarKeys ELSE KeysOf(builder)

C13_NullIsAbsent ==
    \A b \in Builders :
        (/\ FromCalled(b)
         /\ res.arg.t = "obj"
         /\ Mistyped(b, res.arg) = {}
         /\ NullMembers(b, res.arg) \cap LeafKeys(b) # {}) =>
            /\ res.out.ok
            /\ \A k \in LeafKeys(b) \cap DOMAIN res.arg.f :
                  res.out.v[AccessorOf(k)] =
                      IF res.arg.f[k] = JNull THEN DefaultOf(b, k)
                      ELSE res.arg.f[k]

\* C13 as amended: in every From, an absent field gets the default value and
\* a present non-null value of the declared type is returned unchanged; a
\* field present with the value null is not replaced by the default: null
\* is kept for username, password, database and operators-aliases, and for
\* every other field From fails with a configuration error that reports the
\* null value of a field of raw.
C13_Amended ==
    \A b \in Builders :
        (/\ FromCalled(b)
         /\ res.arg.t = "obj"
         /\ Mistyped(b, res.arg) = {}
         /\ b = "Model" =>
               \A g \in SuppliedGroups(res.arg) :
                   Offending(BuilderOfGroup(g), res.arg.f[g]) = {}) =>
            IF MisplacedNull(b, res.arg) = {}
            THEN /\ res.out.ok
                 /\ \A k \in LeafKeys(b) :
                       res.out.v[AccessorOf(k)] =
                           IF k \in DOMAIN res.arg.f THEN res.arg.f[k]
                           ELSE DefaultOf(b, k)
            ELSE /\ ~res.out.ok
                 /\ res.out.err.class = "ModelConfigurationError"
                 /\ Len(res.out.err.message) = 3
                 /\ res.out.err.message[1] = PrefixOf(b)
                 /\ res.out.err.message[2] = "Null value."
                 /\ res.out.err.message[3] \in MisplacedNull(b, res.arg)

C13_Witness ==
    /\ FromCalled("Pool")
    /\ res.arg = JObj([max |-> JNull, min |-> JInt(7)])
    /\ ~res.out.ok
    /\ res.out.err.message =
           <<"Load model pool configuration error.", "Null value.", "max">>

(***************************************************************************)
(* C14: during one validation call (one ModelConfiguration.From(raw), and  *)
(* so one create), the default document is read and parsed exactly once.   *)
(***************************************************************************)
\* A validation call has been made: From of the aggregate, directly or by
\* create.
ValidationCalled == FromCalled("Model") \/ pc # "idle"

\* Its result.
Validation == IF FromCalled("Model") THEN res.out ELSE modelCfg

C14_ReadOnce == ValidationCalled => reads = 1

\* The order of the nested From calls of ModelConfiguration.From.
NestedFromOrder == <<"Sync", "Transaction", "Pool", "Retry">>

\* C14 as amended: during one ModelConfiguration.From(raw), and so during
\* one create, the default document is read and parsed once by every
\* Default() the call runs, never only once when the document is valid:
\* nine times when raw is accepted (once by ModelConfiguration.Default,
\* once by each of the four nested From calls that Default makes, once by
\* each of the four nested From calls of From itself), five times when raw
\* or a top-level member of raw is rejected, and six, seven, eight or nine
\* times when a member of the sync, transaction, pool or retry group is
\* rejected.
C14_Amended ==
    ValidationCalled =>
        IF Validation.ok THEN reads = 9
        ELSE IF Validation.err.message[1] = PrefixOf("Model") THEN reads = 5
        ELSE \E i \in 1..4 :
                /\ Validation.err.message[1] = PrefixOf(NestedFromOrder[i])
                /\ reads = 5 + i

C14_Witness ==
    /\ pc = "done"
    /\ arg.cfg = JObj(("dialect" :> JStr("mysql")) @@
                      ("host" :> JStr("127.0.0.1")) @@
                      ("port" :> JInt(3306)) @@
                      ("pool" :> JObj([max |-> JInt(5)])))
    /\ modelCfg.ok
    /\ outcome = Resolved
    /\ reads = 9

(***************************************************************************)
(* C15: when the bundled default document is invalid for a component, that *)
(* component's From(raw) fails for every raw, a raw that supplies every    *)
(* field itself included, and the failure is reported as a failure of the  *)
(* default configuration, never as a failure of the user's configuration.  *)
(***************************************************************************)
C15_InvalidDefaultReported ==
    \A b \in Builders :
        (FromCalled(b) /\ ~BuilderDefault(b).ok) =>
            /\ ~res.out.ok
            /\ MarkedDefaultFailure(res.out.err)

(***************************************************************************)
(* C16: a validation failure of a field inside a nested group during       *)
(* create is wrapped exactly once by that nested builder, with the group's *)
(* component name, passes through ModelConfiguration.From without being    *)
(* wrapped again, and is wrapped exactly once more by create into a        *)
(* Configuration-kind factory error.                                       *)
(***************************************************************************)
\* The groups of a raw whose top level is valid that have an invalid member.
FailingGroups(raw) ==
    IF raw.t = "obj" /\ Offending("Model", raw) = {}
    THEN { g \in SuppliedGroups(raw) :
             Offending(BuilderOfGroup(g), raw.f[g]) # {} }
    ELSE {}

\* The number of builder prefixes in front of a message.
Wraps(message) ==
    Cardinality({ i \in 1..Len(message) :
                    message[i] \in { PrefixOf(b) : b \in Builders } })

C16_NestedFailureWrappedOnce ==
    (pc # "idle" /\ FailingGroups(arg.cfg) # {}) =>
        /\ pc = "done"
        /\ ~modelCfg.ok
        /\ modelCfg.err.class = "ModelConfigurationError"
        /\ Wraps(modelCfg.err.message) = 1
        /\ \E g \in FailingGroups(arg.cfg) :
              /\ modelCfg.err.message[1] = PrefixOf(BuilderOfGroup(g))
              /\ modelCfg.err.message[Len(modelCfg.err.message)]
                     \in Offending(BuilderOfGroup(g), arg.cfg.f[g])
        /\ outcome.state = "rejected"
        /\ outcome.error.class = "SequelizeFactoryConfigurationError"
        /\ outcome.error.wraps = "ModelConfigurationError"
        /\ outcome.error.message = modelCfg.err.message

C16_Witness ==
    /\ pc = "done"
    /\ arg.cfg = JObj(("pool" :> JObj([max |-> JStr("5")])) @@
                      ("sync" :> JObj([alter |-> JInt(7)])) @@
                      ("transaction" :> JObj("type" :> JInt(7))))
    /\ outcome.state = "rejected"
    /\ outcome.error.class = "SequelizeFactoryConfigurationError"
    /\ outcome.error.message =
           <<"Load model sync configuration error.", "Invalid type.", "alter">>

(***************************************************************************)
(* C17: From accepts a supplied non-null field value if and only if it has *)
(* exactly the declared type of the field: integer fields (port, the pool  *)
(* fields, retry.max) reject fractional numbers and numeric strings,       *)
(* boolean fields (logging, omit-null, the sync fields) reject the strings *)
(* "true"/"false" and numbers, and string fields reject non-strings; no    *)
(* value is coerced.                                                       *)
(***************************************************************************)
\* The integer, boolean and string keys of a builder.
TypedKeys(builder) ==
    { k \in KeysOf(builder) : KindOf(builder, k) \in {"int", "bool", "str"} }

\* A raw object without null members whose members other than the integer,
\* boolean and string ones are valid.
TypedCase(builder, raw) ==
    /\ raw.t = "obj"
    /\ NullMembers(builder, raw) = {}
    /\ Offending(builder, raw) \subseteq TypedKeys(builder)
    /\ builder = "Model" =>
          \A g \in SuppliedGroups(raw) :
              Offending(BuilderOfGroup(g), raw.f[g]) = {}

C17_ExactTypes ==
    \A b \in Builders :
        (FromCalled(b) /\ TypedCase(b, res.arg)) =>
            /\ res.out.ok <=>
                  \A k \in TypedKeys(b) \cap DOMAIN res.arg.f :
                      res.arg.f[k].t = KindOf(b, k)
            /\ res.out.ok =>
                  \A k \in TypedKeys(b) \cap DOMAIN res.arg.f :
                      res.out.v[AccessorOf(k)] = res.arg.f[k]
            /\ ~res.out.ok =>
                  /\ res.out.err.class = "ModelConfigurationError"
                  /\ res.out.err.message[2] = "Invalid type."

C17_Witness ==
    /\ FromCalled("Sync")
    /\ res.arg = JObj([force |-> JStr("true")])
    /\ ~res.out.ok
    /\ res.out.err.message =
           <<"Load model sync configuration error.", "Invalid type.", "force">>

(***************************************************************************)
(* C18: From never rejects a raw configuration because of the value of a   *)
(* correctly typed field: any integers are accepted for the pool fields,   *)
(* including min greater than max, and any strings are accepted for        *)
(* dialect, transaction type and isolation level, including strings        *)
(* outside the documented sets.                                            *)
(***************************************************************************)
C18_PermissiveValues ==
    \A b \in Builders :
        (FromCalled(b) /\ Valid(b, res.arg)) =>
            /\ res.out.ok
            /\ \A k \in LeafKeys(b) \cap DOMAIN res.arg.f :
                  res.out.v[AccessorOf(k)] = res.arg.f[k]
            /\ b = "Model" =>
                  \A g \in SuppliedGroups(res.arg) :
                      \A k \in KeysOf(BuilderOfGroup(g))
                                 \cap DOMAIN res.arg.f[g].f :
                          res.out.v[AccessorOf(g)][AccessorOf(k)] =
                              res.arg.f[g].f[k]

C18_Witness ==
    /\ FromCalled("Model")
    /\ res.arg = JObj(("dialect" :> JStr("postgres")) @@
                      ("protocol" :> JStr("5")) @@
                      ("pool" :> JObj([max |-> JInt(1), min |-> JInt(7)])) @@
                      ("transaction" :>
                          JObj(("type" :> JStr("NESTED")) @@
                               ("isolation-level" :> JStr("SNAPSHOT")))))
    /\ res.out.ok
    /\ res.out.v.poolCfg.min.n > res.out.v.poolCfg.max.n
    /\ res.out.v.transactionCfg.type = JStr("NESTED")
    /\ res.out.v.transactionCfg.isolationLevel = JStr("SNAPSHOT")
    /\ res.out.v.protocol = JStr("5")

(***************************************************************************)
(* C19: ModelConfiguration.From reads omitNull, the isolation level and    *)
(* operatorsAliases from the hyphenated raw keys omit-null,                *)
(* transaction.isolation-level and operators-aliases; a raw that supplies  *)
(* only the camel-case keys (omitNull, isolationLevel, operatorsAliases)   *)
(* gets the default values for these fields, while toObject() always emits *)
(* them under the camel-case keys.                                         *)
(***************************************************************************)
\* The member of raw under a key, or the fallback when raw has no such key.
MemberOr(raw, key, fallback) ==
    IF key \in DOMAIN raw.f THEN raw.f[key] ELSE fallback

HyphenatedKeys == {"omit-null", "isolation-level", "operators-aliases"}

C19_HyphenatedKeys ==
    /\ (FromCalled("Model") /\ Valid("Model", res.arg)) =>
          /\ res.out.ok
          /\ res.out.v.omitNull =
                 MemberOr(res.arg, "omit-null", file.doc.f["omit-null"])
          /\ res.out.v.operatorsAliases =
                 MemberOr(res.arg, "operators-aliases",
                          file.doc.f["operators-aliases"])
          /\ res.out.v.transactionCfg.isolationLevel =
                 MemberOr(MemberOr(res.arg, "transaction", EmptyObject),
                          "isolation-level",
                          file.doc.f["transaction"].f["isolation-level"])
    /\ (FromCalled("Transaction") /\ Valid("Transaction", res.arg)) =>
          /\ res.out.ok
          /\ res.out.v.isolationLevel =
                 MemberOr(res.arg, "isolation-level",
                          file.doc.f["transaction"].f["isolation-level"])
    /\ res.op = "toObject" =>
          /\ {"omitNull", "isolationLevel", "operatorsAliases"}
                 \subseteq DOMAIN res.out.v
          /\ HyphenatedKeys \cap DOMAIN res.out.v = {}
          /\ res.out.v.omitNull = res.arg.omitNull
          /\ res.out.v.isolationLevel = res.arg.transactionCfg.isolationLevel
          /\ res.out.v.operatorsAliases = res.arg.operatorsAliases

C19_Witness ==
    /\ FromCalled("Model")
    /\ res.arg = JObj(("omitNull" :> JBool(TRUE)) @@
                      ("operatorsAliases" :> Opaque("ops")) @@
                      ("transaction" :>
                          JObj("isolationLevel" :> JStr("SERIALIZABLE"))))
    /\ file.doc.f["omit-null"] = JBool(FALSE)
    /\ file.doc.f["operators-aliases"] = JNull
    /\ res.out.ok
    /\ res.out.v.omitNull = JBool(FALSE)
    /\ res.out.v.operatorsAliases = JNull
    /\ res.out.v.transactionCfg.isolationLevel = JStr("READ_COMMITTED")

(***************************************************************************)
(* C20: create called with waitForAuthenticate true settles (resolves or   *)
(* rejects) if and only if the client's authenticate operation settles:    *)
(* when authenticate never settles create stays pending forever, no        *)
(* timeout is applied by this layer, and when authenticate resolves create *)
(* eventually resolves with the constructed client.                        *)
(***************************************************************************)
Settled(promise) == promise.state # "pending"

\* The "only if" half of the claim, for every call with waitForAuthenticate
\* true: the call has settled only if authenticate has.
C20_SettlesOnlyWithAuthenticate ==
    (pc # "idle" /\ arg.wait /\ Settled(outcome)) => Settled(authResult)

\* C20 as amended: a create call with waitForAuthenticate true that has
\* constructed the client and invoked authenticate settles if and only if
\* authenticate settles: while authenticate has not settled the call stays
\* pending (no timeout), once authenticate has resolved the call eventually
\* resolves with the constructed client, and once authenticate has rejected
\* the call eventually rejects. A call whose raw is rejected, or whose
\* client constructor throws, rejects without invoking authenticate.
C20_Amended ==
    /\ [](authCalls = 1 =>
            /\ arg.wait /\ sequelize.made
            /\ Settled(outcome) => Settled(authResult)
            /\ (pc = "awaiting" /\ ~Settled(authResult)) => outcome = Pending)
    /\ []((pc # "idle" /\ arg.wait /\ authCalls = 0) =>
            /\ pc = "done"
            /\ outcome.state = "rejected"
            /\ ~sequelize.made
            /\ authResult = Pending)
    /\ (pc = "awaiting" /\ authResult = Resolved)
          ~> (pc = "done" /\ outcome = Resolved /\ sequelize.made)
    /\ (pc = "awaiting" /\ authResult.state = "rejected")
          ~> (pc = "done" /\ outcome.state = "rejected")

C20_Witness ==
    /\ pc = "done"
    /\ arg.wait
    /\ authCalls = 1
    /\ authResult = Resolved
    /\ outcome = Resolved
    /\ sequelize.made
    /\ sequelize.options.host = JStr("127.0.0.1")

\* The steps of one create() call, in the order the code takes them.
StepOrder == <<"validate", "construct", "authenticate", "return">>

\* The number of times a step occurs among the steps taken.
Times(step) ==
    Cardinality({ i \in 1..Len(stepLog) : stepLog[i] = step })

\* The steps taken are steps of StepOrder, each at most once and in that
\* order, ended by a throw when the call fails.
InStepOrder ==
    /\ \A i \in 1..Len(stepLog) :
          \/ \E n \in 1..4 : stepLog[i] = StepOrder[n]
          \/ stepLog[i] = "throw" /\ i = Len(stepLog)
    /\ \A i, j \in 1..Len(stepLog) :
          \A n, m \in 1..4 :
              (i < j /\ stepLog[i] = StepOrder[n] /\ stepLog[j] = StepOrder[m])
                  => n < m
    /\ stepLog # <<>> => stepLog[1] = "validate"
    /\ Times("authenticate") = 1 => Times("construct") = 1

(***************************************************************************)
(* C21: in every run of create the steps occur in the order validate       *)
(* (ModelConfiguration.From), construct client, authenticate, return; the  *)
(* client is constructed at most once and authenticate is invoked at most  *)
(* once, and a failed authenticate is never retried whatever the value of  *)
(* retry.max.                                                              *)
(***************************************************************************)
C21_StepOrderNoRetry ==
    /\ [](/\ InStepOrder
          /\ ctorCalls = Times("construct") /\ ctorCalls <= 1
          /\ authCalls = Times("authenticate") /\ authCalls <= 1
          /\ pc = "idle" <=> stepLog = <<>>
          /\ pc = "awaiting" <=>
                (stepLog # <<>> /\ stepLog[Len(stepLog)] = "authenticate")
          /\ outcome = Resolved <=>
                (stepLog # <<>> /\ stepLog[Len(stepLog)] = "return")
          /\ outcome.state = "rejected" <=>
                (stepLog # <<>> /\ stepLog[Len(stepLog)] = "throw")
          /\ (pc = "done" /\ authResult.state = "rejected") =>
                /\ stepLog = <<"validate", "construct", "authenticate",
                               "throw">>
                /\ authCalls = 1)
    /\ [][(pc # "idle" /\ pc' # "idle") =>
             /\ Len(stepLog') >= Len(stepLog)
             /\ SubSeq(stepLog', 1, Len(stepLog)) = stepLog
             /\ authResult.state = "rejected" =>
                   (authResult' = authResult /\ authCalls' = authCalls)]_vars

C21_Witness ==
    /\ pc = "done"
    /\ arg.wait
    /\ authResult.state = "rejected"
    /\ authCalls = 1
    /\ modelCfg.ok
    /\ modelCfg.v.retryCfg.max = JInt(4)
    /\ ctorCalls = 1
    /\ stepLog = <<"validate", "construct", "authenticate", "throw">>
    /\ outcome.error.class = "SequelizeFactoryAuthenticateError"

====
